---- MODULE Spec2Model ----
(***************************************************************************)
(* Model of generate_signature.py: the webhook signer                      *)
(* (generate_signature), the command-line harness (the __main__ block)     *)
(* and the server-side verifier the signer interoperates with.             *)
(*                                                                         *)
(* Python objects are records tagged with their type ("kind").  A dict is  *)
(* the sequence of its <<key, value>> items in insertion order, which is   *)
(* the order json.dumps iterates in.  HMAC-SHA256 is modelled as an ideal  *)
(* keyed hash: the digest is the term [key, msg], so two digests are equal *)
(* exactly when key and message are equal (no collisions).                 *)
(***************************************************************************)
EXTENDS Integers, Sequences, FiniteSets, TLC

VARIABLES
    calls,          \* library use: the calls of generate_signature made so far
    argv,           \* harness: sys.argv
    stdin,          \* harness: what the operator will answer at the prompt
    pc,             \* harness: position in the __main__ block
    webhook_secret, \* harness: the variable webhook_secret (line 27 / 29)
    signature,      \* harness: the variable signature (line 55)
    payload_json,   \* harness: the variable payload_json (line 59)
    stdout,         \* harness: the writes to standard output, in order
    stderr,         \* harness: the interpreter's report of an uncaught exception
    events,         \* harness: the steps taken, in order
    verifications   \* verifier: the calls of verify made so far

vars == <<calls, argv, stdin, pc, webhook_secret, signature, payload_json,
          stdout, stderr, events, verifications>>

harnessVars == <<argv, stdin, pc, webhook_secret, signature, payload_json,
                 stdout, stderr, events>>

(***************************************************************************)
(* Bounds of the model.                                                    *)
(***************************************************************************)
MaxCalls == 3

MaxVerifications == 3

(***************************************************************************)
(* Python values.                                                          *)
(***************************************************************************)
PyStr(s) == [kind |-> "str", s |-> s]

PyInt(n) == [kind |-> "int", n |-> n]

PyFloat(f) == [kind |-> "float", f |-> f]

PyBool(b) == [kind |-> "bool", b |-> b]

PyNone == [kind |-> "NoneType"]

PyBytes(b) == [kind |-> "bytes", b |-> b]

PyList(elts) == [kind |-> "list", elts |-> elts]

PyDict(items) == [kind |-> "dict", items |-> items]

\* A reference from inside a container back to a container that encloses it.
PyBackRef == [kind |-> "backref"]

\* What a call produced: a returned value or a raised exception.
Return(v) == [ok |-> TRUE, value |-> v]

Raise(e) == [ok |-> FALSE, exc |-> e]

\* The strings of the model that hold a lone surrogate code point (what
\* Python makes of an undecodable byte of the command line).
LoneSurrogateStrs == {"whsec_\\udcff"}

(***************************************************************************)
(* json.dumps(obj, separators=(item_separator, key_separator))             *)
(***************************************************************************)
\* float.__repr__ for a finite float; allow_nan is left at its default True,
\* so the non-finite floats are written as JavaScript literals.
FloatStr(f) ==
    CASE f = "nan" -> "NaN"
      [] f = "inf" -> "Infinity"
      [] f = "-inf" -> "-Infinity"
      [] OTHER -> f

RECURSIVE JsonEncode(_, _, _)
RECURSIVE JsonEncodeList(_, _, _, _)
RECURSIVE JsonEncodeItems(_, _, _, _)

\* The elements elts[i..] of a list, joined by the item separator.
JsonEncodeList(elts, i, item_separator, key_separator) ==
    IF i > Len(elts) THEN Return("")
    ELSE LET head == JsonEncode(elts[i], item_separator, key_separator)
             tail == JsonEncodeList(elts, i + 1, item_separator, key_separator)
         IN  IF ~head.ok THEN head
             ELSE IF ~tail.ok THEN tail
             ELSE Return(head.value
                         \o (IF i < Len(elts) THEN item_separator ELSE "")
                         \o tail.value)

\* Mutant of JsonEncodeItems: sort_keys=True, the items written in the order
\* of their keys instead of the order the dict holds them.
KeyOrder ==
    <<"a", "attributes", "b", "custom_data", "customer_id", "data",
      "event_name", "id", "meta", "ok", "plan", "plan_id", "self", "status",
      "type", "user_id", "xs">>

SortItems(items) ==
    LET present == SelectSeq(KeyOrder,
                             LAMBDA k : \E n \in DOMAIN items : items[n][1] = k)
    IN  [m \in 1..Len(present) |->
            items[CHOOSE n \in DOMAIN items : items[n][1] = present[m]]]

RECURSIVE JsonEncodeItemsInOrder(_, _, _, _)

JsonEncodeItemsInOrder(items, i, item_separator, key_separator) ==
    IF i > Len(items) THEN Return("")
    ELSE LET head == JsonEncode(items[i][2], item_separator, key_separator)
             tail == JsonEncodeItemsInOrder(items, i + 1, item_separator,
                                            key_separator)
         IN  IF ~head.ok THEN head
             ELSE IF ~tail.ok THEN tail
             ELSE Return("\"" \o items[i][1] \o "\"" \o key_separator
                         \o head.value
                         \o (IF i < Len(items) THEN item_separator ELSE "")
                         \o tail.value)

JsonEncodeItemsSorted(items, i, item_separator, key_separator) ==
    JsonEncodeItemsInOrder(SortItems(items), i, item_separator, key_separator)

\* The items items[i..] of a dict, in the order the dict holds them.
JsonEncodeItems(items, i, item_separator, key_separator) ==
    IF i > Len(items) THEN Return("")
    ELSE LET head == JsonEncode(items[i][2], item_separator, key_separator)
             tail == JsonEncodeItems(items, i + 1, item_separator, key_separator)
         IN  IF ~head.ok THEN head
             ELSE IF ~tail.ok THEN tail
             ELSE Return("\"" \o items[i][1] \o "\"" \o key_separator
                         \o head.value
                         \o (IF i < Len(items) THEN item_separator ELSE "")
                         \o tail.value)

JsonEncode(o, item_separator, key_separator) ==
    CASE o.kind = "str" -> Return("\"" \o o.s \o "\"")
      [] o.kind = "int" -> Return(ToString(o.n))
      [] o.kind = "float" -> Return(FloatStr(o.f))
      [] o.kind = "bool" -> Return(IF o.b THEN "true" ELSE "false")
      [] o.kind = "NoneType" -> Return("null")
      [] o.kind = "list" ->
            LET body == JsonEncodeList(o.elts, 1, item_separator, key_separator)
            IN  IF body.ok THEN Return("[" \o body.value \o "]") ELSE body
      [] o.kind = "dict" ->
            LET body == JsonEncodeItems(o.items, 1, item_separator, key_separator)
            IN  IF body.ok THEN Return("{" \o body.value \o "}") ELSE body
      [] o.kind = "backref" -> Raise("ValueError")
      [] OTHER -> Raise("TypeError")

JsonDumps(obj, item_separator, key_separator) ==
    LET r == JsonEncode(obj, item_separator, key_separator)
    IN  IF r.ok THEN Return(PyStr(r.value)) ELSE r

(***************************************************************************)
(* str.encode('utf-8'), hmac.new(...), HMAC.hexdigest()                    *)
(***************************************************************************)
Utf8Encode(o) ==
    IF o.kind # "str" THEN Raise("AttributeError")
    ELSE IF o.s \in LoneSurrogateStrs THEN Raise("UnicodeEncodeError")
    ELSE Return(PyBytes(o.s))

HmacNew(key, msg) == [alg |-> "sha256", key |-> key.b, msg |-> msg.b]

\* The 64 lowercase hexadecimal characters that write a digest.
Hexdigest(h) == [kind |-> "str", hex |-> h, len |-> 64]

(***************************************************************************)
(* generate_signature(webhook_secret, payload)                             *)
(***************************************************************************)
\* Lines 16-22: encode the secret and the payload string, hash, write in hex.
SignEncoded(secret, payload_str) ==
    LET secret_bytes == Utf8Encode(secret)
    IN  IF ~secret_bytes.ok THEN secret_bytes
        ELSE LET payload_bytes == Utf8Encode(payload_str)
             IN  IF ~payload_bytes.ok THEN payload_bytes
                 ELSE Return(Hexdigest(HmacNew(secret_bytes.value,
                                               payload_bytes.value)))

\* Mutant of generate_signature: a counter of the calls made so far is bound
\* into the signed bytes (hidden state, as a nonce or timestamp would be).
generate_signature_nonce(secret, payload) ==
    LET payload_str == IF payload.kind = "dict"
                       THEN JsonDumps(payload, ",", ":")
                       ELSE Return(payload)
    IN  IF ~payload_str.ok THEN payload_str
        ELSE IF payload_str.value.kind # "str"
             THEN SignEncoded(secret, payload_str.value)
             ELSE SignEncoded(secret, PyStr(ToString(Len(calls)) \o "."
                                            \o payload_str.value.s))

\* Mutant of generate_signature: json.dumps with its default separators
\* (', ' and ': ') instead of the compact ones.
generate_signature_default_separators(secret, payload) ==
    LET payload_str == IF payload.kind = "dict"
                       THEN JsonDumps(payload, ", ", ": ")
                       ELSE Return(payload)
    IN  IF ~payload_str.ok THEN payload_str
        ELSE SignEncoded(secret, payload_str.value)

generate_signature(secret, payload) ==
    LET payload_str == IF payload.kind = "dict"
                       THEN JsonDumps(payload, ",", ":")
                       ELSE Return(payload)
    IN  IF ~payload_str.ok THEN payload_str
        ELSE SignEncoded(secret, payload_str.value)

(***************************************************************************)
(* Library use of the signer: callers hand generate_signature a secret and *)
(* a payload; the model keeps the calls made, with what each produced and  *)
(* what the caller's two objects hold after the call.                      *)
(***************************************************************************)
\* The example of the specification, {"a":1,"b":"x"}, and the same pairs
\* inserted in the other order.
PayloadAB == PyDict(<< <<"a", PyInt(1)>>, <<"b", PyStr("x")>> >>)

PayloadBA == PyDict(<< <<"b", PyStr("x")>>, <<"a", PyInt(1)>> >>)

\* A nested payload, and the same payload with only the inner dict's items
\* in the other order.
PayloadNested ==
    PyDict(<< <<"meta", PyDict(<< <<"plan", PyStr("pro")>>,
                                  <<"user_id", PyStr("u1")>> >>)>>,
              <<"ok", PyBool(TRUE)>> >>)

PayloadNestedSwapped ==
    PyDict(<< <<"meta", PyDict(<< <<"user_id", PyStr("u1")>>,
                                  <<"plan", PyStr("pro")>> >>)>>,
              <<"ok", PyBool(TRUE)>> >>)

PayloadEmpty == PyDict(<< >>)

PayloadList == PyDict(<< <<"xs", PyList(<<PyInt(1), PyNone, PyFloat("1.5")>>)>> >>)

\* Payloads holding a value that JSON cannot represent: a non-finite number
\* (inside a list), an opaque binary blob, a structure that holds itself.
PayloadNaN == PyDict(<< <<"a", PyList(<<PyFloat("nan")>>)>> >>)

PayloadBlob == PyDict(<< <<"a", PyBytes("blob")>> >>)

PayloadCyclic == PyDict(<< <<"a", PyDict(<< <<"self", PyBackRef>> >>)>> >>)

DictPayloads ==
    {PayloadAB, PayloadBA, PayloadNested, PayloadNestedSwapped, PayloadEmpty,
     PayloadList, PayloadNaN, PayloadBlob, PayloadCyclic}

\* The already-serialized payloads: a dict's compact serialization and the
\* serialization of the same dict with json.dumps' default separators.
CompactOf(p) == JsonDumps(p, ",", ":")

SpacedOf(p) == JsonDumps(p, ", ", ": ")

StrPayloads ==
    {CompactOf(PayloadAB).value, SpacedOf(PayloadAB).value,
     CompactOf(PayloadNested).value}

\* A payload that is neither a dict nor a str.
OtherPayloads == {PyList(<<PyInt(1)>>)}

PayloadInputs == DictPayloads \cup StrPayloads \cup OtherPayloads

\* The secrets callers sign under: the empty one and a provisioned one.
SecretInputs == {PyStr(""), PyStr("whsec_test")}

CallSigner(secret, payload) ==
    /\ Len(calls) < MaxCalls
    /\ calls' = Append(calls, [secret |-> secret,
                               payload |-> payload,
                               result |-> generate_signature(secret, payload),
                               secret_after |-> secret,
                               payload_after |-> payload])
    /\ UNCHANGED <<harnessVars, verifications>>

SignerInit ==
    /\ calls = << >>
    /\ argv = << >>
    /\ stdin = PyNone
    /\ pc = "idle"
    /\ webhook_secret = PyNone
    /\ signature = PyNone
    /\ payload_json = PyNone
    /\ stdout = << >>
    /\ stderr = << >>
    /\ events = << >>
    /\ verifications = << >>

SignerNext == \E secret \in SecretInputs, payload \in PayloadInputs :
                  CallSigner(secret, payload)

SpecSigner == SignerInit /\ [][SignerNext]_vars

(***************************************************************************)
(* The harness: the __main__ block, one action per statement.              *)
(***************************************************************************)
\* The sample test payload of lines 32-52.
SamplePayload ==
    PyDict(<<
      <<"meta", PyDict(<<
          <<"event_name", PyStr("subscription_created")>>,
          <<"custom_data", PyDict(<<
              <<"plan", PyStr("pro")>>,
              <<"user_id", PyStr("a1b2c3d4-e5f6-7890-1234-567890abcdef")>> >>)>> >>)>>,
      <<"data", PyDict(<<
          <<"id", PyStr("sub_test_123")>>,
          <<"type", PyStr("subscriptions")>>,
          <<"attributes", PyDict(<<
              <<"customer_id", PyStr("cust_test_456")>>,
              <<"status", PyStr("active")>>,
              <<"plan_id", PyInt(12345)>>,
              <<"custom_data", PyDict(<< <<"plan", PyStr("pro")>> >>)>> >>)>> >>)>> >>)

\* What the operator may hand the harness as its secret: nothing, a
\* provisioned secret, another one, one with an undecodable byte.
OperatorSecrets ==
    {PyStr(""), PyStr("whsec_test"), PyStr("wrong_secret"), PyStr("whsec_\\udcff")}

ScriptName == PyStr("generate_signature.py")

\* sys.argv: the script alone, the script and a secret, or more arguments.
ArgvInputs ==
    {<<ScriptName>>}
        \cup {<<ScriptName, s>> : s \in OperatorSecrets}
        \cup {<<ScriptName, s, PyStr("extra")>> : s \in OperatorSecrets}

\* What the operator answers at the prompt: a line, or end of input (None).
StdinInputs ==
    {PyStr(""), PyStr("whsec_test"), PyStr("wrong_secret"), PyStr("s3cret"), PyNone}

\* len(sys.argv) > 1 (line 26) and sys.argv[1] (line 27).
HasCliSecret == Len(argv) > 1

\* Mutant of CliSecret: sys.argv[0], the script's name, taken for the secret.
CliSecretArgv0 == argv[1]

CliSecret == argv[2]

\* The prompt of line 29.
PromptText == <<PyStr("Enter your LemonSqueezy webhook secret: ")>>

\* print(f"\nGenerated x-signature: {signature}") (line 56).
SignatureLine(sig) == <<PyStr("\nGenerated x-signature: "), sig, PyStr("\n")>>

\* Mutant of HarnessPayloadJson: the body is serialized with json.dumps'
\* default separators.
HarnessPayloadJsonSpaced == JsonDumps(SamplePayload, ", ", ": ")

\* json.dumps(payload, separators=(',', ':')) (line 59).
HarnessPayloadJson == JsonDumps(SamplePayload, ",", ":")

\* print("\nCURL command to test webhook:") (line 60).
CurlHeading == <<PyStr("\nCURL command to test webhook:"), PyStr("\n")>>

\* Mutant of CurlCommand: the request carries the secret in a header of its
\* own.
CurlCommandWithSecret(sig, body) ==
    <<PyStr("\ncurl -X POST \\\n  -H \"Content-Type: application/json\" \\\n  -H \"x-signature: "),
      sig,
      PyStr("\" \\\n  -d '"),
      body,
      PyStr("' \\\n  -H \"x-webhook-secret: "),
      webhook_secret,
      PyStr("\" \\\n  https://anuexdfqfiibzzmspewa.supabase.co/functions/v1/lemonsqueezy-webhook\n"),
      PyStr("\n")>>

\* The example request of lines 61-67: method, headers, body, URL.
CurlCommand(sig, body) ==
    <<PyStr("\ncurl -X POST \\\n  -H \"Content-Type: application/json\" \\\n  -H \"x-signature: "),
      sig,
      PyStr("\" \\\n  -d '"),
      body,
      PyStr("' \\\n  https://anuexdfqfiibzzmspewa.supabase.co/functions/v1/lemonsqueezy-webhook\n"),
      PyStr("\n")>>

\* No statement of the block is inside a try: an exception ends the run, and
\* the interpreter writes its traceback, which names the exception, to stderr.
Traceback(exc) == <<PyStr("Traceback (most recent call last):\n"), PyStr(exc)>>

Event(step, secret) == [step |-> step, secret |-> secret]

ReadArgv ==
    /\ pc = "start"
    /\ HasCliSecret
    /\ webhook_secret' = CliSecret
    /\ pc' = "sign"
    /\ events' = Append(events, Event("argv", PyNone))
    /\ UNCHANGED <<calls, argv, stdin, signature, payload_json, stdout, stderr,
                   verifications>>

IssuePrompt ==
    /\ pc = "start"
    /\ ~HasCliSecret
    /\ stdout' = Append(stdout, PromptText)
    /\ pc' = "input"
    /\ events' = Append(events, Event("prompt", PyNone))
    /\ UNCHANGED <<calls, argv, stdin, webhook_secret, signature, payload_json,
                   stderr, verifications>>

\* input() returns the line the operator typed, or raises EOFError.
ReadAnswer ==
    /\ pc = "input"
    /\ IF stdin.kind = "str"
       THEN /\ webhook_secret' = stdin
            /\ pc' = "sign"
            /\ events' = Append(events, Event("read", PyNone))
            /\ UNCHANGED stderr
       ELSE /\ stderr' = Append(stderr, Traceback("EOFError"))
            /\ pc' = "uncaught"
            /\ events' = Append(events, Event("raise", PyNone))
            /\ UNCHANGED webhook_secret
    /\ UNCHANGED <<calls, argv, stdin, signature, payload_json, stdout,
                   verifications>>

Sign ==
    /\ pc = "sign"
    /\ LET r == generate_signature(webhook_secret, SamplePayload)
       IN  IF r.ok
           THEN /\ signature' = r.value
                /\ pc' = "print_signature"
                /\ events' = Append(events, Event("sign", webhook_secret))
                /\ UNCHANGED stderr
           ELSE /\ stderr' = Append(stderr, Traceback(r.exc))
                /\ pc' = "uncaught"
                /\ events' = events \o <<Event("sign", webhook_secret),
                                         Event("raise", PyNone)>>
                /\ UNCHANGED signature
    /\ UNCHANGED <<calls, argv, stdin, webhook_secret, payload_json, stdout,
                   verifications>>

PrintSignature ==
    /\ pc = "print_signature"
    /\ stdout' = Append(stdout, SignatureLine(signature))
    /\ pc' = "dump"
    /\ events' = Append(events, Event("print_signature", PyNone))
    /\ UNCHANGED <<calls, argv, stdin, webhook_secret, signature, payload_json,
                   stderr, verifications>>

DumpPayload ==
    /\ pc = "dump"
    /\ LET r == HarnessPayloadJson
       IN  IF r.ok
           THEN /\ payload_json' = r.value
                /\ pc' = "print_curl"
                /\ events' = Append(events, Event("dump", PyNone))
                /\ UNCHANGED stderr
           ELSE /\ stderr' = Append(stderr, Traceback(r.exc))
                /\ pc' = "uncaught"
                /\ events' = Append(events, Event("raise", PyNone))
                /\ UNCHANGED payload_json
    /\ UNCHANGED <<calls, argv, stdin, webhook_secret, signature, stdout,
                   verifications>>

PrintCurl ==
    /\ pc = "print_curl"
    /\ stdout' = stdout \o <<CurlHeading, CurlCommand(signature, payload_json)>>
    /\ pc' = "done"
    /\ events' = Append(events, Event("print_curl", PyNone))
    /\ UNCHANGED <<calls, argv, stdin, webhook_secret, signature, payload_json,
                   stderr, verifications>>

Init ==
    /\ calls = << >>
    /\ argv \in ArgvInputs
    /\ stdin \in StdinInputs
    /\ pc = "start"
    /\ webhook_secret = PyNone
    /\ signature = PyNone
    /\ payload_json = PyNone
    /\ stdout = << >>
    /\ stderr = << >>
    /\ events = << >>
    /\ verifications = << >>

Next ==
    \/ ReadArgv
    \/ IssuePrompt
    \/ ReadAnswer
    \/ Sign
    \/ PrintSignature
    \/ DumpPayload
    \/ PrintCurl

Spec == Init /\ [][Next]_vars

(***************************************************************************)
(* The verifier, the server-side counterpart of the signer:                *)
(* verify(secret, bytes, receivedSignature) recomputes the signature of    *)
(* the bytes received on the wire and compares it with the one received.   *)
(***************************************************************************)
Accept == [outcome |-> "Accept", reason |-> ""]

Reject(reason) == [outcome |-> "Reject", reason |-> reason]

\* The length of a received signature and whether it is written in
\* hexadecimal digits only.
SigLen(sig) == IF "len" \in DOMAIN sig THEN sig.len ELSE Len(sig.s)

IsHex(sig) == "hex" \in DOMAIN sig

\* The first n characters of a signature.
Truncated(sig, n) == [kind |-> "str", hex |-> sig.hex, len |-> n]

\* sign(secret, bytes): the keyed hash of the bytes under the secret.
sign(secret, bytes) ==
    LET secret_bytes == Utf8Encode(secret)
    IN  IF ~secret_bytes.ok THEN secret_bytes
        ELSE Return(Hexdigest(HmacNew(secret_bytes.value, bytes)))

\* Why a received signature is not the expected one ("" when it is).
MismatchCause(expected, received) ==
    IF ~expected.ok THEN "no expected signature"
    ELSE IF SigLen(received) # SigLen(expected.value) THEN "length"
    ELSE IF ~IsHex(received) THEN "malformed hex"
    ELSE IF received # expected.value THEN "comparison"
    ELSE ""

\* Mutant of verify: the rejection names its cause.
verify_distinguishing(secret, bytes, received) ==
    IF MismatchCause(sign(secret, bytes), received) = ""
    THEN Accept
    ELSE Reject(MismatchCause(sign(secret, bytes), received))

verify(secret, bytes, received) ==
    IF MismatchCause(sign(secret, bytes), received) = ""
    THEN Accept
    ELSE Reject("signature mismatch")

WireBytes == {PyBytes(CompactOf(PayloadAB).value.s), PyBytes(SpacedOf(PayloadAB).value.s)}

VerifierSecrets == {PyStr("whsec_test"), PyStr("wrong_secret"), PyStr("whsec_\\udcff")}

SentSignatures == {sign(PyStr("whsec_test"), PyBytes(CompactOf(PayloadAB).value.s)).value}

ReceivedInputs ==
    SentSignatures
        \cup {Truncated(sig, 63) : sig \in SentSignatures}
        \cup {PyStr("zzzzzzzzzzzzzzzzzzzzzzzzzzzzzzzzzzzzzzzzzzzzzzzzzzzzzzzzzzzzzzzz"),
              PyStr("")}

CallVerify(secret, bytes, received) ==
    /\ Len(verifications) < MaxVerifications
    /\ verifications' =
           Append(verifications,
                  [secret |-> secret,
                   bytes |-> bytes,
                   received |-> received,
                   cause |-> MismatchCause(sign(secret, bytes), received),
                   outcome |-> verify(secret, bytes, received)])
    /\ UNCHANGED <<calls, harnessVars>>

VerifierInit == SignerInit

VerifierNext == \E secret \in VerifierSecrets, bytes \in WireBytes,
                   received \in ReceivedInputs :
                    CallVerify(secret, bytes, received)

SpecVerifier == VerifierInit /\ [][VerifierNext]_vars

(***************************************************************************)
(* Properties.                                                             *)
(***************************************************************************)
\* The value kinds JSON cannot represent, anywhere in a payload tree.
RECURSIVE HasUnrepresentable(_)

HasUnrepresentable(o) ==
    CASE o.kind = "float" -> o.f \in {"nan", "inf", "-inf"}
      [] o.kind = "bytes" -> TRUE
      [] o.kind = "backref" -> TRUE
      [] o.kind = "list" -> \E i \in DOMAIN o.elts : HasUnrepresentable(o.elts[i])
      [] o.kind = "dict" -> \E i \in DOMAIN o.items : HasUnrepresentable(o.items[i][2])
      [] OTHER -> FALSE

\* Two payloads hold the same key/value pairs at every level, in whatever
\* order their dicts hold them.
RECURSIVE SameContent(_, _)

SameContent(p, q) ==
    IF p.kind # q.kind THEN FALSE
    ELSE CASE p.kind = "dict" ->
                /\ Len(p.items) = Len(q.items)
                /\ \A i \in DOMAIN p.items : \E j \in DOMAIN q.items :
                       /\ p.items[i][1] = q.items[j][1]
                       /\ SameContent(p.items[i][2], q.items[j][2])
           [] p.kind = "list" ->
                /\ Len(p.elts) = Len(q.elts)
                /\ \A i \in DOMAIN p.elts : SameContent(p.elts[i], q.elts[i])
           [] OTHER -> p = q

\* The bytes a returned signature was computed over, and the key.
SignedBytes(sig) == sig.hex.msg

SigningKey(sig) == sig.hex.key

\* C1: every call of generate_signature with an empty secret fails with an
\* InvalidSecretError; no signature is returned under an empty key.
C1_EmptySecretRejected ==
    \A i \in DOMAIN calls :
        calls[i].secret = PyStr("") =>
            /\ ~calls[i].result.ok
            /\ calls[i].result.exc = "InvalidSecretError"

\* C2: every call of generate_signature whose payload tree holds a value
\* JSON cannot represent (a non-finite number, a binary blob, a cycle) fails
\* with a serialization error, and returns no signature.
C2_UnrepresentableRejected ==
    \A i \in DOMAIN calls :
        (calls[i].payload.kind = "dict" /\ HasUnrepresentable(calls[i].payload)) =>
            /\ ~calls[i].result.ok
            /\ calls[i].result.exc \in {"TypeError", "ValueError"}

\* C3: verify returns Accept or the one Reject("signature mismatch"); a
\* received signature of the wrong length, one that is not hexadecimal and
\* one that differs from the expected signature get the same Reject.
C3_SingleGenericReject ==
    \A i \in DOMAIN verifications :
        LET v == verifications[i]
        IN  /\ v.outcome \in {Accept, Reject("signature mismatch")}
            /\ v.cause # "" => v.outcome = Reject("signature mismatch")
            /\ v.cause = "" => v.outcome = Accept
            /\ \A j \in DOMAIN verifications :
                   (v.cause # "" /\ verifications[j].cause # "")
                       => verifications[j].outcome = v.outcome

C3_Witness ==
    /\ Len(verifications) = 3
    /\ {verifications[i].cause : i \in DOMAIN verifications}
           = {"length", "malformed hex", "comparison"}
    /\ \A i \in DOMAIN verifications : verifications[i].outcome.outcome = "Reject"

\* C4: in every harness run in which an error is raised, the harness catches
\* it: the run does not end with an uncaught error, and it prints neither a
\* signature line nor an example request.
HarnessRaised == \E i \in DOMAIN events : events[i].step = "raise"

HarnessPrinted ==
    \E i \in DOMAIN events : events[i].step \in {"print_signature", "print_curl"}

C4_HarnessCatchesErrors ==
    HarnessRaised => (pc # "uncaught" /\ stderr = << >> /\ ~HarnessPrinted)

\* C5: the secret handed to the signer is the first command-line argument
\* when there is one and the operator's answer to the one prompt otherwise;
\* the prompt is issued only without an argument and only before signing.
StepsOf(step) == {i \in DOMAIN events : events[i].step = step}

C5_SecretFromArgvElsePrompt ==
    /\ \A i \in StepsOf("sign") :
           events[i].secret = IF Len(argv) > 1 THEN argv[2] ELSE stdin
    /\ Cardinality(StepsOf("prompt")) <= 1
    /\ StepsOf("prompt") # {} => Len(argv) <= 1
    /\ (StepsOf("sign") # {} /\ Len(argv) <= 1) => StepsOf("prompt") # {}
    /\ \A i \in StepsOf("prompt") : \A j \in StepsOf("sign") : i < j
    /\ Cardinality({i \in DOMAIN stdout : stdout[i] = PromptText})
           = Cardinality(StepsOf("prompt"))

C5_Witness ==
    /\ pc = "done"
    /\ Len(argv) = 1
    /\ stdin = PyStr("s3cret")
    /\ StepsOf("prompt") = {1}
    /\ \E i \in StepsOf("sign") : events[i].secret = PyStr("s3cret")

C7_RequestMatchesSignature ==
    pc = "done" =>
        LET line == stdout[Len(stdout) - 2]
            request == stdout[Len(stdout)]
        IN  /\ request[4].s = SignedBytes(line[2])
            /\ request[2] = line[2]
            /\ line[2] = signature

C7_Witness ==
    /\ pc = "done"
    /\ Len(argv) = 2
    /\ webhook_secret = PyStr("whsec_test")
    /\ stdout[Len(stdout)][4] = CompactOf(SamplePayload).value

\* C8: nothing the harness writes (the prompt, the signature line, the
\* example request) is the secret, however the secret was acquired.  The
\* signature is the digest, which stands in the output as itself.
Written ==
    {stdout[i][k] : <<i, k>> \in {<<i, k>> \in (DOMAIN stdout) \X (1..8) : k <= Len(stdout[i])}}
        \cup {stderr[i][k] : <<i, k>> \in {<<i, k>> \in (DOMAIN stderr) \X (1..8) : k <= Len(stderr[i])}}

C8_SecretNeverWritten ==
    /\ webhook_secret \notin Written
    /\ Len(argv) > 1 => argv[2] \notin Written
    /\ Len(argv) <= 1 => stdin \notin Written

C8_Witness ==
    /\ pc = "done"
    /\ Len(argv) = 1
    /\ webhook_secret = PyStr("wrong_secret")
    /\ Len(stdout) = 4
    /\ SigningKey(signature) = "wrong_secret"

\* C9: the canonical bytes hold a dict's keys in the order the caller
\* supplied them, at every level: payloads with the same pairs in different
\* key orders get different bytes and, under one secret, different
\* signatures; payloads supplied in the same order get the same bytes.
C9_KeyOrderPreserved ==
    \A i, j \in DOMAIN calls :
        (/\ calls[i].payload.kind = "dict"
         /\ calls[j].payload.kind = "dict"
         /\ calls[i].result.ok
         /\ calls[j].result.ok
         /\ SameContent(calls[i].payload, calls[j].payload))
        => /\ calls[i].payload # calls[j].payload =>
                 /\ SignedBytes(calls[i].result.value)
                        # SignedBytes(calls[j].result.value)
                 /\ calls[i].secret = calls[j].secret
                        => calls[i].result.value # calls[j].result.value
           /\ calls[i].payload = calls[j].payload =>
                 SignedBytes(calls[i].result.value)
                     = SignedBytes(calls[j].result.value)

C9_Witness ==
    /\ Len(calls) = 3
    /\ calls[1].payload = PayloadNested
    /\ calls[2].payload = PayloadNestedSwapped
    /\ calls[3].payload = PayloadBA
    /\ \A i \in DOMAIN calls : calls[i].secret = PyStr("whsec_test") /\ calls[i].result.ok

\* C10: a dict payload is signed as its compact serialization and a str
\* payload as it stands: under one secret a dict and its compact
\* serialization get the same signature, and a serialization of the same
\* dict with other whitespace gets a different one.
C10_StringSignedVerbatim ==
    /\ \A i \in DOMAIN calls :
           (calls[i].payload.kind = "str" /\ calls[i].result.ok)
               => SignedBytes(calls[i].result.value) = calls[i].payload.s
    /\ \A i, j \in DOMAIN calls :
           (/\ calls[i].payload.kind = "dict"
            /\ calls[j].payload.kind = "str"
            /\ calls[i].secret = calls[j].secret
            /\ CompactOf(calls[i].payload).ok)
           => /\ calls[j].payload = CompactOf(calls[i].payload).value
                    => calls[i].result = calls[j].result
              /\ (/\ calls[j].payload = SpacedOf(calls[i].payload).value
                  /\ calls[j].payload # CompactOf(calls[i].payload).value)
                    => calls[i].result # calls[j].result

C10_Witness ==
    /\ Len(calls) = 3
    /\ calls[1].payload = PayloadAB
    /\ calls[2].payload = CompactOf(PayloadAB).value
    /\ calls[3].payload = SpacedOf(PayloadAB).value
    /\ \A i \in DOMAIN calls : calls[i].secret = PyStr("whsec_test") /\ calls[i].result.ok
    /\ calls[1].result = calls[2].result
    /\ calls[3].result # calls[1].result

====
